---- MODULE Spec2Model ----
(***************************************************************************)
(* Model of the Minesweeper knowledge base of                              *)
(* "CS50 AI/Project 1/Minesweeper/minesweeper.py": the Sentence class and  *)
(* the MinesweeperAI class (mark_mine, mark_safe, add_knowledge,           *)
(* make_safe_move, play, make_random_move, get_neighbors).                 *)
(*                                                                         *)
(* A cell is the pair <<i, j>>.  A Sentence is the record                  *)
(* [cells |-> set of cells, count |-> integer].  add_knowledge is modelled *)
(* in steps: AddKnowledge is lines 200-217 (up to the append), InferStep   *)
(* is one iteration of the for loop of lines 220-238; no other operation   *)
(* can start while the loop runs (the program is single threaded).         *)
(*                                                                         *)
(* The module also holds the mine counts of the Minesweeper class          *)
(* (nearby_mines), for games played with true counts, and player, actions  *)
(* and result of "CS50 AI/Project 0 / Tic-Tac-Toe /tictactoe.py".          *)
(***************************************************************************)
EXTENDS Integers, FiniteSets, Sequences, TLC

\* ---- bounds of the model ------------------------------------------------
\* Boards go up to MaxHeight x MaxWidth.  The specification with only
\* add_knowledge calls (SpecAK) uses the boards of at most MaxCells cells, counts
\* up to MaxCount and at most MaxKnowledge calls.  The specifications that add
\* play() or fairness use the same boards and counts with at most
\* MaxKnowledgeSmall calls.  The specifications with direct mark calls use
\* counts up to MaxCountSmall and at most MaxKnowledgeSmall add_knowledge calls,
\* on the boards of at most MaxCellsMarks cells (SpecMarks) and, with the move
\* operations as well, of at most MaxCellsSmall cells (Spec).
MaxHeight == 2
MaxWidth == 3
MaxCells == 6
MaxCellsMarks == 3
MaxCellsSmall == 2
MaxCount == 2
MaxCountSmall == 1
MaxKnowledge == 3
MaxKnowledgeSmall == 2
\* The specification with calls on cells outside the board (SpecOutside) takes
\* them Margin away from the board, on the boards of at most MaxCellsSmall cells.
Margin == 1
\* The specification of games with true counts (SpecSound) uses the boards of
\* at most MaxCells cells and at most MaxReveals add_knowledge calls.
MaxReveals == 5

VARIABLES
    height,          \* self.height
    width,           \* self.width
    moves_made,      \* self.moves_made
    mines,           \* self.mines
    safes,           \* self.safes
    accounted_mines, \* self.accounted_mines
    knowledge,       \* self.knowledge, a sequence of Sentences
    pc,              \* "idle", or "infer" while the loop of add_knowledge runs
    idx,             \* position of the loop of lines 220-238 in self.knowledge
    lastOp,          \* the public operation called last
    arg,             \* the cell passed to it when it is add_knowledge or a
                     \* Sentence method, the action when it is result(), else
                     \* NoCell
    ret,             \* what it returned (NoCell for None)
    kb0,             \* self.knowledge as it was right after the append of line 217
    raised,          \* the exception the last operation raised (NoError if none)
    game_mines,      \* Minesweeper.mines, the mine layout of the game being played
    sentence,        \* a Sentence object the caller holds on its own
    board,           \* tic-tac-toe: the board the game is at
    input_board      \* tic-tac-toe: the board passed to the last result() call,
                     \* as it is after the call

\* the objects the operations of MinesweeperAI do not reach
otherVars == <<game_mines, sentence, board, input_board>>

vars == <<height, width, moves_made, mines, safes, accounted_mines, knowledge,
          pc, idx, lastOp, arg, ret, kb0, raised, otherVars>>

\* no exception: the operation returned
NoError == "none"

\* Python's None, where a cell is expected
NoCell == <<>>

\* ---- class Sentence -------------------------------------------------------
Sentence(cells, count) == [cells |-> cells, count |-> count]

known_mines(s) == IF Cardinality(s.cells) = s.count THEN s.cells ELSE {}

known_safes(s) == IF s.count = 0 THEN s.cells ELSE {}

sentence_mark_mine_always_decrements(s, cell) ==
    [cells |-> s.cells \ {cell}, count |-> s.count - 1]

sentence_mark_mine(s, cell) ==
    IF cell \in s.cells
    THEN [cells |-> s.cells \ {cell}, count |-> s.count - 1]
    ELSE s

sentence_mark_safe_decrements(s, cell) ==
    IF cell \in s.cells
    THEN [cells |-> s.cells \ {cell}, count |-> s.count - 1]
    ELSE s

sentence_mark_safe(s, cell) ==
    IF cell \in s.cells
    THEN [cells |-> s.cells \ {cell}, count |-> s.count]
    ELSE s

\* ---- class Minesweeper ------------------------------------------------------
\* nearby_mines(cell) on an h x w board whose mines are the cells of ms
nearby_mines(h, w, ms, cell) ==
    Cardinality({c \in (cell[1] - 1 .. cell[1] + 1) \X (cell[2] - 1 .. cell[2] + 1) :
                    /\ c # cell
                    /\ 0 <= c[1] /\ c[1] < h /\ 0 <= c[2] /\ c[2] < w
                    /\ c \in ms})

\* ---- class MinesweeperAI: the state as one value --------------------------
\* The four collections the mark operations and the inference loop mutate.
AI == [moves_made |-> moves_made, mines |-> mines, safes |-> safes,
       knowledge |-> knowledge]

Max(a, b) == IF a >= b THEN a ELSE b
Min(a, b) == IF a <= b THEN a ELSE b

\* all cells of an h x w board: itertools.product(range(h), range(w))
all_cells(h, w) == (0 .. h - 1) \X (0 .. w - 1)

get_neighbors(h, w, cell) ==
    ((Max(0, cell[1] - 1) .. Min(h, cell[1] + 2) - 1)
        \X (Max(0, cell[2] - 1) .. Min(w, cell[2] + 2) - 1)) \ {cell}

mark_mine(st, cell) ==
    [st EXCEPT !.mines = @ \cup {cell},
               !.knowledge = [i \in DOMAIN @ |-> sentence_mark_mine(@[i], cell)]]

mark_safe_unmarks_mine(st, cell) ==
    [st EXCEPT !.moves_made = @ \ {cell},
               !.mines = @ \ {cell},
               !.safes = @ \cup {cell},
               !.knowledge = [i \in DOMAIN @ |-> sentence_mark_safe(@[i], cell)]]

mark_safe(st, cell) ==
    [st EXCEPT !.moves_made = @ \ {cell},
               !.safes = @ \cup {cell},
               !.knowledge = [i \in DOMAIN @ |-> sentence_mark_safe(@[i], cell)]]

\* "for cell in difference_cells: self.mark_safe(cell)" (lines 225-226, 234-235)
RECURSIVE mark_safe_all(_, _)
mark_safe_all(st, cs) ==
    IF cs = {} THEN st
    ELSE LET c == CHOOSE x \in cs : TRUE
         IN  mark_safe_all(mark_safe(st, c), cs \ {c})

\* "for cell in difference_cells: self.mark_mine(cell)" (lines 228-229, 237-238)
RECURSIVE mark_mine_all(_, _)
mark_mine_all(st, cs) ==
    IF cs = {} THEN st
    ELSE LET c == CHOOSE x \in cs : TRUE
         IN  mark_mine_all(mark_mine(st, c), cs \ {c})

\* lines 204-206: one decrement per known mine in the neighbourhood that is
\* not in accounted_mines
adjusted_count_ignores_mines(h, w, ms, acc, cell, count) == count

adjusted_count(h, w, ms, acc, cell, count) ==
    count - Cardinality({m \in ms : m \in get_neighbors(h, w, cell) /\ m \notin acc})

new_sentence_cells_keeps_classified(h, w, st, cell) ==
    get_neighbors(h, w, cell) \ st.moves_made

\* lines 212-215: the cells of the new sentence
new_sentence_cells(h, w, st, cell) ==
    ((get_neighbors(h, w, cell) \ st.safes) \ st.moves_made) \ st.mines

subset_rule_mines_on_any_excess(st, s, n) ==
    LET difference_cells == s.cells \ n.cells
    IN  IF s.count - n.count = 0
        THEN mark_safe_all(st, difference_cells)
        ELSE IF s.count - n.count >= 1
             THEN mark_mine_all(st, difference_cells)
             ELSE st

\* lines 223-229: new_sentence.cells is a subset of sentence.cells
subset_rule(st, s, n) ==
    LET difference_cells == s.cells \ n.cells
    IN  IF s.count - n.count = 0
        THEN mark_safe_all(st, difference_cells)
        ELSE IF s.count - n.count = Cardinality(difference_cells)
             THEN mark_mine_all(st, difference_cells)
             ELSE st

superset_rule_new_count_only(st, s, n) ==
    LET difference_cells == n.cells \ s.cells
    IN  IF n.count = 0
        THEN mark_safe_all(st, difference_cells)
        ELSE IF n.count = Cardinality(difference_cells)
             THEN mark_mine_all(st, difference_cells)
             ELSE st

\* lines 232-238: new_sentence.cells is a superset of sentence.cells
superset_rule(st, s, n) ==
    LET difference_cells == n.cells \ s.cells
    IN  IF n.count = 0
        THEN mark_safe_all(st, difference_cells)
        ELSE IF n.count - s.count = Cardinality(difference_cells)
             THEN mark_mine_all(st, difference_cells)
             ELSE st

\* lines 221-238: the body of the loop for the sentence at position i;
\* new_sentence is the last element of self.knowledge
infer_one(st, i) ==
    LET s == st.knowledge[i]
        n == st.knowledge[Len(st.knowledge)]
    IN  IF n.cells \subseteq s.cells
        THEN subset_rule(st, s, n)
        ELSE IF s.cells \subseteq n.cells
             THEN superset_rule(st, s, n)
             ELSE st

next_index_stuck(i) == i

\* the for loop of line 220 moves to the next element of the list
next_index(i) == i + 1

safe_moves_unfiltered(st) == st.safes

\* line 249: the cells make_safe_move can return (safe_moves[0] of a list built
\* from a set, so any of them)
safe_moves(st) == {cell \in st.safes : cell \notin st.moves_made}

possible_moves_keeps_mines(h, w, st) ==
    {cell \in all_cells(h, w) : cell \notin st.moves_made}

\* lines 285-290
possible_moves(h, w, st) ==
    {cell \in all_cells(h, w) : cell \notin st.moves_made /\ cell \notin st.mines}

\* ---- tictactoe.py ----------------------------------------------------------
X == "X"
O == "O"
EMPTY == "EMPTY"

\* a board is board[i][j] with i, j in 0 .. 2
initial_state == [i \in 0 .. 2 |-> [j \in 0 .. 2 |-> EMPTY]]

\* sum(row.count(mark) for row in board)
count_marks(b, mark) ==
    Cardinality({a \in (0 .. 2) \X (0 .. 2) : b[a[1]][a[2]] = mark})

player_o_on_tie(b) == IF count_marks(b, X) >= count_marks(b, O) THEN O ELSE X

player(b) == IF count_marks(b, X) > count_marks(b, O) THEN O ELSE X

actions(b) == {a \in (0 .. 2) \X (0 .. 2) : b[a[1]][a[2]] = EMPTY}

\* line 49: the action is rejected
invalid_action(b, action) ==
    \/ ~(0 <= action[1] /\ action[1] < 3)
    \/ ~(0 <= action[2] /\ action[2] < 3)
    \/ b[action[1]][action[2]] # EMPTY

\* lines 45-53, for an action that is not rejected
result(b, action) == [b EXCEPT ![action[1]][action[2]] = player(b)]

\* ---- initial state: MinesweeperAI(height, width) --------------------------
\* the boards of the model; a board and its transpose behave alike (the code
\* treats rows and columns the same way), so only height <= width is kept
Boards(maxCells) ==
    {b \in (1 .. MaxHeight) \X (1 .. MaxWidth) :
        b[1] <= b[2] /\ b[1] * b[2] <= maxCells}

\* MinesweeperAI(height, width) on one of the boards
FreshAI(maxCells) ==
    /\ \E b \in Boards(maxCells) : height = b[1] /\ width = b[2]
    /\ moves_made = {}
    /\ mines = {}
    /\ safes = {}
    /\ accounted_mines = {}
    /\ knowledge = <<>>
    /\ pc = "idle"
    /\ idx = 0
    /\ lastOp = "init"
    /\ arg = NoCell
    /\ ret = NoCell
    /\ kb0 = <<>>
    /\ raised = NoError

\* no tic-tac-toe game is played
NoBoard == board = initial_state /\ input_board = initial_state

InitBoards(maxCells) ==
    /\ FreshAI(maxCells)
    /\ game_mines = {}
    /\ sentence = Sentence({}, 0)
    /\ NoBoard

Init == InitBoards(MaxCellsSmall)

InitMarks == InitBoards(MaxCellsMarks)

InitAK == InitBoards(MaxCells)

\* a Sentence of its own, over cells of the board
SentenceInputs ==
    {Sentence(cs, n) : cs \in SUBSET all_cells(height, width), n \in 0 .. MaxCount}

InitSentence ==
    /\ FreshAI(MaxCells)
    /\ game_mines = {}
    /\ sentence \in SentenceInputs
    /\ NoBoard

\* a game: Minesweeper(height, width, mines) with any layout of the mines,
\* and MinesweeperAI(height, width)
InitGame ==
    /\ FreshAI(MaxCells)
    /\ game_mines \in SUBSET all_cells(height, width)
    /\ sentence = Sentence({}, 0)
    /\ NoBoard

\* tic-tac-toe: the game starts at initial_state(); the program creates no
\* MinesweeperAI, whose variables stay those of a 1 x 1 one
InitTicTacToe ==
    /\ FreshAI(1)
    /\ game_mines = {}
    /\ sentence = Sentence({}, 0)
    /\ NoBoard

Cells == all_cells(height, width)
Counts == 0 .. MaxCount
CountsSmall == 0 .. MaxCountSmall

SetAI(st) ==
    /\ moves_made' = st.moves_made
    /\ mines' = st.mines
    /\ safes' = st.safes
    /\ knowledge' = st.knowledge

\* ---- operations -----------------------------------------------------------
\* MinesweeperAI.mark_mine(cell), called directly
MarkMine(cell) ==
    /\ pc = "idle"
    /\ SetAI(mark_mine(AI, cell))
    /\ lastOp' = "mark_mine" /\ arg' = NoCell /\ ret' = NoCell /\ kb0' = <<>>
    /\ raised' = NoError /\ UNCHANGED otherVars
    /\ UNCHANGED <<height, width, accounted_mines, pc, idx>>

\* MinesweeperAI.mark_safe(cell), called directly
MarkSafe(cell) ==
    /\ pc = "idle"
    /\ SetAI(mark_safe(AI, cell))
    /\ lastOp' = "mark_safe" /\ arg' = NoCell /\ ret' = NoCell /\ kb0' = <<>>
    /\ raised' = NoError /\ UNCHANGED otherVars
    /\ UNCHANGED <<height, width, accounted_mines, pc, idx>>

\* add_knowledge(cell, count), lines 200-217: mark safe, adjust the count,
\* record the move, append the new sentence; then the loop starts
add_knowledge_begin_move_first(h, w, st, acc, cell, count) ==
    LET st0 == [st EXCEPT !.moves_made = @ \cup {cell}]
        st2 == mark_safe(st0, cell)
        c1  == adjusted_count(h, w, st2.mines, acc, cell, count)
        new_sentence == Sentence(new_sentence_cells(h, w, st2, cell), c1)
    IN  [st2 EXCEPT !.knowledge = Append(@, new_sentence)]

add_knowledge_begin(h, w, st, acc, cell, count) ==
    LET st1 == mark_safe(st, cell)
        c1  == adjusted_count(h, w, st1.mines, acc, cell, count)
        st2 == [st1 EXCEPT !.moves_made = @ \cup {cell}]
        new_sentence == Sentence(new_sentence_cells(h, w, st2, cell), c1)
    IN  [st2 EXCEPT !.knowledge = Append(@, new_sentence)]

AddKnowledge(cell, count) ==
    /\ pc = "idle"
    /\ LET st == add_knowledge_begin(height, width, AI, accounted_mines, cell, count)
       IN  /\ SetAI(st)
           /\ kb0' = st.knowledge
    /\ pc' = "infer"
    /\ idx' = 1
    /\ lastOp' = "add_knowledge" /\ arg' = cell /\ ret' = NoCell
    /\ raised' = NoError /\ UNCHANGED otherVars
    /\ UNCHANGED <<height, width, accounted_mines>>

\* Sentence.mark_mine(cell) on the sentence
SentenceMarkMine(cell) ==
    /\ pc = "idle"
    /\ sentence' = sentence_mark_mine(sentence, cell)
    /\ lastOp' = "Sentence.mark_mine" /\ arg' = cell
    /\ UNCHANGED <<height, width, moves_made, mines, safes, accounted_mines,
                   knowledge, pc, idx, ret, kb0, raised, game_mines, board,
                   input_board>>

\* Sentence.mark_safe(cell) on the sentence
SentenceMarkSafe(cell) ==
    /\ pc = "idle"
    /\ sentence' = sentence_mark_safe(sentence, cell)
    /\ lastOp' = "Sentence.mark_safe" /\ arg' = cell
    /\ UNCHANGED <<height, width, moves_made, mines, safes, accounted_mines,
                   knowledge, pc, idx, ret, kb0, raised, game_mines, board,
                   input_board>>

\* add_knowledge(cell, count) with a cell outside the board: get_neighbors ends
\* with neighbors.remove(cell) (line 304), and the cell is not among the cells
\* it collected, so it raises KeyError.  That happens at line 205 when
\* self.mines is not empty, else at line 212, after line 209 recorded the move;
\* line 201 has run in both cases.
AddKnowledgeRaises(cell, count) ==
    /\ pc = "idle"
    /\ cell \notin all_cells(height, width)
    /\ LET st1 == mark_safe(AI, cell)
       IN  SetAI(IF st1.mines # {} THEN st1
                 ELSE [st1 EXCEPT !.moves_made = @ \cup {cell}])
    /\ raised' = "KeyError"
    /\ lastOp' = "add_knowledge" /\ arg' = cell /\ ret' = NoCell /\ kb0' = <<>>
    /\ UNCHANGED <<height, width, accounted_mines, pc, idx, otherVars>>

\* one iteration of "for sentence in self.knowledge" (lines 220-238);
\* add_knowledge returns after the iteration for the last sentence
InferStep ==
    /\ pc = "infer"
    /\ idx <= Len(knowledge)
    /\ SetAI(infer_one(AI, idx))
    /\ idx' = next_index(idx)
    /\ pc' = IF idx' > Len(knowledge) THEN "idle" ELSE "infer"
    /\ raised' = NoError /\ UNCHANGED otherVars
    /\ UNCHANGED <<height, width, accounted_mines, lastOp, arg, ret, kb0>>

\* make_safe_move(), lines 249-256
MakeSafeMove ==
    /\ pc = "idle"
    /\ \/ \E c \in safe_moves(AI) : ret' = c
       \/ safe_moves(AI) = {} /\ ret' = NoCell
    /\ lastOp' = "make_safe_move" /\ arg' = NoCell /\ kb0' = <<>>
    /\ raised' = NoError /\ UNCHANGED otherVars
    /\ UNCHANGED <<height, width, moves_made, mines, safes, accounted_mines,
                   knowledge, pc, idx>>

\* make_random_move(), lines 285-293
MakeRandomMove ==
    /\ pc = "idle"
    /\ \/ \E c \in possible_moves(height, width, AI) : ret' = c
       \/ possible_moves(height, width, AI) = {} /\ ret' = NoCell
    /\ lastOp' = "make_random_move" /\ arg' = NoCell /\ kb0' = <<>>
    /\ raised' = NoError /\ UNCHANGED otherVars
    /\ UNCHANGED <<height, width, moves_made, mines, safes, accounted_mines,
                   knowledge, pc, idx>>

\* play(), lines 260-276
PlaySafe ==
    /\ pc = "idle"
    /\ \E safe_move \in safe_moves(AI) :
          /\ moves_made' = moves_made \cup {safe_move}
          /\ safes' = safes \ {safe_move}
          /\ ret' = safe_move
    /\ lastOp' = "play" /\ arg' = NoCell /\ kb0' = <<>>
    /\ raised' = NoError /\ UNCHANGED otherVars
    /\ UNCHANGED <<height, width, mines, accounted_mines, knowledge, pc, idx>>

PlayRandom_before_safe ==
    /\ pc = "idle"
    /\ \E random_move \in possible_moves(height, width, AI) :
          /\ moves_made' = moves_made \cup {random_move}
          /\ ret' = random_move
    /\ lastOp' = "play" /\ arg' = NoCell /\ kb0' = <<>>
    /\ raised' = NoError /\ UNCHANGED otherVars
    /\ UNCHANGED <<height, width, mines, safes, accounted_mines, knowledge, pc, idx>>

PlayRandom ==
    /\ pc = "idle"
    /\ safe_moves(AI) = {}
    /\ \E random_move \in possible_moves(height, width, AI) :
          /\ moves_made' = moves_made \cup {random_move}
          /\ ret' = random_move
    /\ lastOp' = "play" /\ arg' = NoCell /\ kb0' = <<>>
    /\ raised' = NoError /\ UNCHANGED otherVars
    /\ UNCHANGED <<height, width, mines, safes, accounted_mines, knowledge, pc, idx>>

PlayNone ==
    /\ pc = "idle"
    /\ safe_moves(AI) = {}
    /\ possible_moves(height, width, AI) = {}
    /\ ret' = NoCell
    /\ lastOp' = "play" /\ arg' = NoCell /\ kb0' = <<>>
    /\ raised' = NoError /\ UNCHANGED otherVars
    /\ UNCHANGED <<height, width, moves_made, mines, safes, accounted_mines,
                   knowledge, pc, idx>>

Play == PlaySafe \/ PlayRandom \/ PlayNone

\* tic-tac-toe: board = result(board, action), lines 45-53; the input board is
\* deep-copied (line 45) and the copy is the only board written (line 52)
Result(action) ==
    /\ pc = "idle"
    /\ IF invalid_action(board, action)
       THEN /\ raised' = "ValueError"
            /\ board' = board
       ELSE /\ raised' = NoError
            /\ board' = result(board, action)
    /\ input_board' = board
    /\ lastOp' = "result" /\ arg' = action
    /\ UNCHANGED <<height, width, moves_made, mines, safes, accounted_mines,
                   knowledge, pc, idx, ret, kb0, game_mines, sentence>>

\* ---- specifications --------------------------------------------------------
\* every public operation, in any order
Next ==
    \/ \E cell \in Cells, count \in CountsSmall :
          Len(knowledge) < MaxKnowledgeSmall /\ AddKnowledge(cell, count)
    \/ InferStep
    \/ \E cell \in Cells : MarkMine(cell)
    \/ \E cell \in Cells : MarkSafe(cell)
    \/ MakeSafeMove
    \/ MakeRandomMove
    \/ Play

Spec == Init /\ [][Next]_vars

\* add_knowledge, mark_safe and mark_mine calls
NextMarks ==
    \/ \E cell \in Cells, count \in CountsSmall :
          Len(knowledge) < MaxKnowledgeSmall /\ AddKnowledge(cell, count)
    \/ InferStep
    \/ \E cell \in Cells : MarkMine(cell)
    \/ \E cell \in Cells : MarkSafe(cell)

SpecMarks == InitMarks /\ [][NextMarks]_vars

\* add_knowledge calls only
NextAK ==
    \/ \E cell \in Cells, count \in Counts :
          Len(knowledge) < MaxKnowledge /\ AddKnowledge(cell, count)
    \/ InferStep

SpecAK == InitAK /\ [][NextAK]_vars

\* add_knowledge calls only; the loop of add_knowledge is not suspended: once
\* started, it keeps running
NextTerm ==
    \/ \E cell \in Cells, count \in Counts :
          Len(knowledge) < MaxKnowledgeSmall /\ AddKnowledge(cell, count)
    \/ InferStep

FairAK == InitAK /\ [][NextTerm]_vars /\ WF_vars(InferStep)

\* play() and add_knowledge, where the cell play() returns is the next cell
\* passed to add_knowledge
Pending == lastOp = "play" /\ ret # NoCell

NextGame ==
    \/ \E cell \in Cells, count \in Counts :
          /\ Len(knowledge) < MaxKnowledge
          /\ Pending => cell = ret
          /\ AddKnowledge(cell, count)
    \/ InferStep
    \/ ~Pending /\ Play

SpecGame == InitAK /\ [][NextGame]_vars

\* add_knowledge, mark_safe and mark_mine calls, with cells of the board and
\* cells outside it: one before the first row, one past the last row and column
OutsideCells ==
    UNION {{<<-m, 0>>, <<height - 1 + m, width - 1 + m>>} : m \in 1 .. Margin}

NextOutside ==
    \/ \E cell \in Cells, count \in CountsSmall :
          Len(knowledge) < MaxKnowledgeSmall /\ AddKnowledge(cell, count)
    \/ InferStep
    \/ \E cell \in OutsideCells, count \in CountsSmall : AddKnowledgeRaises(cell, count)
    \/ \E cell \in Cells \cup OutsideCells : MarkMine(cell)
    \/ \E cell \in Cells \cup OutsideCells : MarkSafe(cell)

SpecOutside == Init /\ [][NextOutside]_vars

\* add_knowledge calls on cells that are not mines of the game, with the count
\* the game gives for the cell
NextSound ==
    \/ \E cell \in Cells \ game_mines :
          /\ Len(knowledge) < MaxReveals
          /\ AddKnowledge(cell, nearby_mines(height, width, game_mines, cell))
    \/ InferStep

SpecSound == InitGame /\ [][NextSound]_vars

\* mark_mine and mark_safe calls on a Sentence of its own
NextSentence ==
    \/ \E cell \in Cells : SentenceMarkMine(cell)
    \/ \E cell \in Cells : SentenceMarkSafe(cell)

SpecSentence == InitSentence /\ [][NextSentence]_vars

\* tic-tac-toe: result() calls with the actions on the board and with actions
\* up to Margin outside it, in the row, in the column or in both
ResultActions ==
    ((0 .. 2) \X (0 .. 2))
        \cup UNION {{<<-m, 1>>, <<2 + m, 1>>, <<1, -m>>, <<1, 2 + m>>,
                     <<-m, 2 + m>>} : m \in 1 .. Margin}

NextTicTacToe == \E action \in ResultActions : Result(action)

SpecTicTacToe == InitTicTacToe /\ [][NextTicTacToe]_vars

\* ---- properties ------------------------------------------------------------
\* add_knowledge has returned (the loop of lines 220-238 is over)
Returned == pc = "idle" /\ lastOp = "add_knowledge"

\* the sentence appended by the call and the sentences that were already there,
\* as they were when the inference loop started
NewSentence0 == kb0[Len(kb0)]
OldSentences0 == {kb0[i] : i \in 1 .. Len(kb0) - 1}

\* some mine layout satisfies every sentence the knowledge base held when the
\* inference loop started (the counts can come from one board)
Consistent0 ==
    \E M \in SUBSET Cells :
        \A i \in 1 .. Len(kb0) : Cardinality(kb0[i].cells \cap M) = kb0[i].count

\* the new sentence and the older sentence o are {A,B,C} = big and {A,B} = small
NewIsLarger(o, big, small) ==
    /\ Cardinality(NewSentence0.cells) = 3 /\ NewSentence0.count = big
    /\ Cardinality(o.cells) = 2 /\ o.count = small
    /\ o.cells \subseteq NewSentence0.cells

NewIsSmaller(o, big, small) ==
    /\ Cardinality(o.cells) = 3 /\ o.count = big
    /\ Cardinality(NewSentence0.cells) = 2 /\ NewSentence0.count = small
    /\ NewSentence0.cells \subseteq o.cells

\* the cells C such that, when the inference loop started, the new sentence and
\* an older one were {A,B,C} = big and {A,B} = small, in either role
PairDiffs(big, small) ==
    UNION {IF NewIsLarger(o, big, small) THEN NewSentence0.cells \ o.cells
           ELSE IF NewIsSmaller(o, big, small) THEN o.cells \ NewSentence0.cells
           ELSE {} : o \in OldSentences0}

\* C1 (as stated): after any sequence of add_knowledge calls, with any in-bounds
\* cells and any counts, no cell is in both safes and mines.
C1_Original == safes \cap mines = {}

\* an add_knowledge call starts on a cell that is in self.mines
CallOnKnownMine == pc = "idle" /\ pc' = "infer" /\ arg' \in mines

\* C1 (amended): a step of add_knowledge keeps safes and mines disjoint unless
\* it is the start of a call on a cell that is in mines; so after any sequence
\* of calls none of which passes a known mine, no cell is in both sets.
C1_Amended ==
    [][(safes \cap mines = {} /\ ~CallOnKnownMine) => safes' \cap mines' = {}]_vars

C1_Witness ==
    /\ Returned
    /\ mines # {}
    /\ Cardinality(safes) >= 2
    /\ safes \cap mines = {}

\* C2: on a 1x2 board with a fresh AI, after add_knowledge(c, 1) returns the
\* other cell is in mines.
C2_Claim ==
    (/\ Returned
     /\ height = 1 /\ width = 2
     /\ Len(knowledge) = 1
     /\ kb0[1].count = 1) => (Cells \ {arg}) \subseteq mines

\* C3: when add_knowledge returns and the knowledge base held {A,B,C} = 1 and
\* {A,B} = 1 at its inference step (one of them the new sentence), C is in
\* safes.  Stated for the knowledge bases some mine layout satisfies.
C3_Claim == (Returned /\ Consistent0) => PairDiffs(1, 1) \subseteq safes

\* the loop is about to compare the new sentence with an older one, and the
\* two are {A,B,C} = big and {A,B} = small, in either role
Compared(big, small) ==
    /\ pc = "infer"
    /\ idx < Len(knowledge)
    /\ LET s == knowledge[idx]
           n == knowledge[Len(knowledge)]
           Shape(l, m) == /\ Cardinality(l.cells) = 3 /\ l.count = big
                          /\ Cardinality(m.cells) = 2 /\ m.count = small
                          /\ m.cells \subseteq l.cells
       IN  Shape(n, s) \/ Shape(s, n)

\* the cell C of the two sentences the loop is about to compare
ComparedDiff ==
    LET s == knowledge[idx]
        n == knowledge[Len(knowledge)]
    IN  (s.cells \ n.cells) \cup (n.cells \ s.cells)

FixedPoint ==
    /\ \A i \in 1 .. Len(knowledge) :
          /\ known_safes(knowledge[i]) \subseteq safes
          /\ known_mines(knowledge[i]) \subseteq mines
          /\ \A j \in 1 .. Len(knowledge) :
                knowledge[j].cells
                    \cap (known_safes(knowledge[i]) \cup known_mines(knowledge[i])) = {}
    /\ \A i, j \in 1 .. Len(knowledge) :
          (i # j /\ knowledge[i].cells \subseteq knowledge[j].cells) =>
              LET diff  == knowledge[j].cells \ knowledge[i].cells
                  delta == knowledge[j].count - knowledge[i].count
              IN  /\ delta = 0 => diff = {}
                  /\ delta = Cardinality(diff) => diff = {}

\* C5: when add_knowledge returns, the knowledge base is at a fixed point of
\* the two inference rules (known safes/mines of a sentence, subset difference).
C5_Claim == Returned => FixedPoint

\* C6 (as stated): make_safe_move never returns a cell of mines and never a
\* cell of moves_made.
C6_Original ==
    (lastOp = "make_safe_move" /\ ret # NoCell) =>
        (ret \notin mines /\ ret \notin moves_made)

\* C6 (amended): make_safe_move returns only cells of safes, never a cell of
\* moves_made, and never a cell of mines as long as safes and mines are disjoint.
C6_Amended ==
    (lastOp = "make_safe_move" /\ ret # NoCell) =>
        /\ ret \in safes
        /\ ret \notin moves_made
        /\ (safes \cap mines = {}) => ret \notin mines

C6_Witness ==
    /\ lastOp = "make_safe_move"
    /\ ret # NoCell
    /\ mines # {}
    /\ moves_made # {}
    /\ safes \cap mines = {}

\* C7: mark_safe(cell) leaves moves_made unchanged, and no cell leaves
\* moves_made in a mark_mine call or in a step of the inference loop.
C7_Claim ==
    [][/\ (\E c \in Cells : MarkSafe(c)) => moves_made' = moves_made
       /\ ((\E c \in Cells : MarkMine(c)) \/ InferStep) =>
              moves_made \subseteq moves_made']_vars

\* C8: after add_knowledge(cell, count) returns, where every cell play()
\* returned went to add_knowledge next, moves_made is a subset of safes and
\* cell is in both.
C8_MovesSafe ==
    Returned => /\ moves_made \subseteq safes
                /\ arg \in moves_made
                /\ arg \in safes

C8_Witness ==
    /\ Returned
    /\ Len(knowledge) >= 2
    /\ Cardinality(moves_made) >= 2
    /\ safes \ moves_made # {}

\* C9: between public operations, no sentence contains a cell of safes or of
\* mines, the sentences appended after the cell was classified included.
C9_Disjoint ==
    pc = "idle" =>
        \A i \in 1 .. Len(knowledge) : knowledge[i].cells \cap (safes \cup mines) = {}

\* a sentence with cells left was appended for a cell that had a neighbour
\* already marked as a mine (and not as safe or as a move), and left it out
C9_Witness ==
    /\ Returned
    /\ NewSentence0.cells # {}
    /\ \E c \in get_neighbors(height, width, arg) \cap mines :
          c \notin NewSentence0.cells /\ c \notin safes /\ c \notin moves_made

\* C10: every add_knowledge call terminates: once the inference loop has
\* started, it comes to its end.
C10_Terminates == (pc = "infer") ~> (pc = "idle")

C10_Witness ==
    /\ Returned
    /\ Len(knowledge) >= 2
    /\ idx = Len(knowledge) + 1

\* C11: no step of an add_knowledge call takes a cell out of safes or out of
\* mines, so |safes| + |mines| never decreases from one return to the next.
C11_Monotone ==
    [][/\ safes \subseteq safes'
       /\ mines \subseteq mines'
       /\ Cardinality(safes) + Cardinality(mines)
              <= Cardinality(safes') + Cardinality(mines')]_vars

\* a second call has returned, and its inference grew the two sets
C11_Witness ==
    /\ Returned
    /\ Len(knowledge) = 2
    /\ Cardinality(safes) + Cardinality(mines) >= 4

\* the in-bounds cells at Chebyshev distance 1 from cell
Distance1(cell) ==
    {c \in Cells : /\ c # cell
                   /\ c[1] - cell[1] \in -1 .. 1
                   /\ c[2] - cell[2] \in -1 .. 1}

C13_Claim ==
    /\ (safes \cup mines \cup moves_made) \subseteq Cells
    /\ \A i \in 1 .. Len(knowledge) : knowledge[i].cells \subseteq Cells

\* C14: when add_knowledge has returned, no sentence of the knowledge base has
\* count < 0 or count > |cells| (such a sentence is reported, never left).
C14_Claim ==
    Returned =>
        \A i \in 1 .. Len(knowledge) :
            /\ 0 <= knowledge[i].count
            /\ knowledge[i].count <= Cardinality(knowledge[i].cells)

\* C15: Sentence.mark_mine(cell) with cell in cells removes cell and takes 1
\* from count, Sentence.mark_safe(cell) with cell in cells removes cell and
\* keeps count, either call with cell not in cells changes nothing; no other
\* cell is removed.
C15_SentenceMarks ==
    [][\A cell \in Cells :
          /\ SentenceMarkMine(cell) =>
                IF cell \in sentence.cells
                THEN /\ sentence'.cells = sentence.cells \ {cell}
                     /\ sentence'.count = sentence.count - 1
                ELSE sentence' = sentence
          /\ SentenceMarkSafe(cell) =>
                IF cell \in sentence.cells
                THEN /\ sentence'.cells = sentence.cells \ {cell}
                     /\ sentence'.count = sentence.count
                ELSE sentence' = sentence]_vars

\* mark_mine calls took the count of a sentence below zero, and cells are left
C15_Witness ==
    /\ lastOp = "Sentence.mark_mine"
    /\ sentence.count < 0
    /\ sentence.cells # {}
    /\ arg \notin sentence.cells

\* the sentences over cells of the board, with counts on both sides of zero
BoardSentences ==
    {Sentence(cs, n) : cs \in SUBSET Cells, n \in -MaxCount .. MaxCount}

\* a second mark_mine(c) or mark_safe(c) in a row leaves the sentence s as the
\* first call left it
SentenceIdempotent(s, c) ==
    /\ sentence_mark_mine(sentence_mark_mine(s, c), c) = sentence_mark_mine(s, c)
    /\ sentence_mark_safe(sentence_mark_safe(s, c), c) = sentence_mark_safe(s, c)

\* the fields of the AI the idempotence claim is about
Marked(st) == <<st.safes, st.mines, st.knowledge>>

\* C16: a second Sentence.mark_mine(c) or Sentence.mark_safe(c) in a row
\* changes nothing, for every sentence over the board (checked once per
\* board); a second MinesweeperAI.mark_mine(c) or mark_safe(c) in a row changes
\* none of safes, mines and the sentences of knowledge.
C16_Idempotent ==
    /\ lastOp = "init" =>
          \A c \in Cells, s \in BoardSentences : SentenceIdempotent(s, c)
    /\ pc = "idle" =>
          \A c \in Cells :
              LET mine_once == mark_mine(AI, c)
                  safe_once == mark_safe(AI, c)
              IN  /\ Marked(mark_mine(mine_once, c)) = Marked(mine_once)
                  /\ Marked(mark_safe(safe_once, c)) = Marked(safe_once)

\* the inference has called mark_mine, and a sentence with cells is left whose
\* count a mark_mine call would change
C16_Witness ==
    /\ Returned
    /\ mines # {}
    /\ \E i \in 1 .. Len(knowledge) :
          knowledge[i].cells # {} /\ knowledge[i].count > 0

\* the cells that are neither moves made nor known mines
FreeCells == {c \in Cells : c \notin moves_made /\ c \notin mines}

\* C17: make_random_move returns None exactly when every cell of the board is
\* in moves_made or in mines, else a cell of the board in neither; every such
\* cell can be the one returned; the call changes none of safes, mines,
\* moves_made and knowledge.
C17_RandomMove ==
    /\ [](lastOp = "make_random_move" =>
             IF Cells \subseteq (moves_made \cup mines)
             THEN ret = NoCell
             ELSE ret \in Cells /\ ret \notin moves_made /\ ret \notin mines)
    /\ [](pc = "idle" =>
             \A c \in FreeCells : ENABLED (MakeRandomMove /\ ret' = c))
    /\ [][MakeRandomMove =>
             UNCHANGED <<safes, mines, moves_made, knowledge>>]_vars

\* make_random_move returned a cell while another cell was left out as a mine
C17_Witness ==
    /\ lastOp = "make_random_move"
    /\ ret # NoCell
    /\ mines # {}
    /\ Len(knowledge) >= 1

\* the cells of safes that are not moves made
SafeCells == {c \in safes : c \notin moves_made}

\* C19: play() returns a cell of safes that is not in moves_made when there is
\* one; else a cell that is neither in moves_made nor in mines when there is
\* one; else None.  A cell it returns was not in moves_made before the call and
\* is in moves_made after it, and mines is unchanged.
C19_TurnPolicy ==
    [][Play =>
         /\ SafeCells # {} => ret' \in SafeCells
         /\ (SafeCells = {} /\ FreeCells # {}) => ret' \in FreeCells
         /\ (SafeCells = {} /\ FreeCells = {}) => ret' = NoCell
         /\ ret' # NoCell => /\ ret' \notin moves_made
                             /\ ret' \in moves_made'
         /\ mines' = mines]_vars

\* play() returned a cell on a board with a known mine and a sentence
C19_Witness ==
    /\ lastOp = "play"
    /\ ret # NoCell
    /\ ret \in moves_made
    /\ mines # {}
    /\ Len(knowledge) >= 1

\* C18: with add_knowledge called on cells that are not mines of the game and
\* with their true counts, in every state mines holds only mines of the game,
\* safes holds none, and the count of every sentence is the number of mines of
\* the game among its cells (so it is between 0 and the number of its cells).
C18_Sound ==
    /\ mines \subseteq game_mines
    /\ safes \cap game_mines = {}
    /\ \A i \in 1 .. Len(knowledge) :
          /\ knowledge[i].count = Cardinality(knowledge[i].cells \cap game_mines)
          /\ 0 <= knowledge[i].count
          /\ knowledge[i].count <= Cardinality(knowledge[i].cells)

\* the inference has found a mine and a safe cell that is no move, and a
\* sentence with a mine among its cells is left
C18_Witness ==
    /\ Returned
    /\ mines # {}
    /\ safes \ moves_made # {}
    /\ \E i \in 1 .. Len(knowledge) : knowledge[i].count >= 1

\* the squares of a tic-tac-toe board
Squares == (0 .. 2) \X (0 .. 2)

\* C20: on every board reached from initial_state() by result() calls the
\* number of X marks minus the number of O marks is 0 or 1, and player(board)
\* is X exactly when they are equal; result(board, a) with a in actions(board)
\* gives a board that differs from the input by player(board)'s mark at a and
\* leaves the input board as it was; with a out of range or on an occupied
\* square it raises ValueError and leaves the input board as it was.  (arg'
\* is the action of the call.)
C20_TicTacToe ==
    /\ [](LET d == count_marks(board, X) - count_marks(board, O)
          IN  /\ d \in {0, 1}
              /\ (player(board) = X) <=> (d = 0))
    /\ [][LET a == arg'
          IN  Result(a) =>
                  /\ input_board' = board
                  /\ IF a \in actions(board)
                     THEN /\ raised' = NoError
                          /\ board'[a[1]][a[2]] = player(board)
                          /\ \A q \in Squares \ {a} :
                                 board'[q[1]][q[2]] = board[q[1]][q[2]]
                     ELSE /\ raised' = "ValueError"
                          /\ board' = board]_vars

\* a result() call on an occupied square of a board with five marks has raised
C20_Witness ==
    /\ lastOp = "result"
    /\ raised = "ValueError"
    /\ arg \in Squares
    /\ count_marks(board, X) = 3
    /\ count_marks(board, O) = 2

TypeOK ==
    /\ moves_made \subseteq Cells
    /\ mines \subseteq Cells
    /\ safes \subseteq Cells
    /\ pc \in {"idle", "infer"}
====
